---- MODULE Spec2Model ----
(***************************************************************************)
(* A state-machine model of Dispatcher::run (connectorx/src/dispatcher.rs) *)
(* and of the external collaborators it drives: a Source, a Destination    *)
(* and a Transport.  Every call run() makes on a collaborator is an action *)
(* (or part of one) whose outcome is drawn from the outcomes the trait     *)
(* signature allows (Ok / Err, and the values the call returns).           *)
(***************************************************************************)
EXTENDS Naturals, Integers, Sequences, FiniteSets, TLC

\* ---------------------------------------------------------------- bounds
MaxParts == 2      \* most partitions Source::partition / Destination::partition return
MaxRows  == 2      \* most rows a partition reports
MaxCols  == 2      \* most columns of a schema / a destination partition
MaxLen == 4        \* most rows of a DateTimeBlock (datetime.rs:10-12)
MaxCounts == 3     \* longest `counts` handed to DateTimeColumn::partition

\* ------------------------------------------------------- the collaborators
\* DataOrder (data_order::DataOrder, matched at dispatcher.rs:110-141)
DataOrder == {"RowMajor", "ColumnMajor"}

\* The source type system of the modelled Transport: Int has a destination
\* type and a conversion rule, Str has a destination type but no conversion
\* rule, Blob has no destination type.
SrcTypes == {"Int", "Str", "Blob"}

\* TP::convert_typesystem(s) (dispatcher.rs:55): Ok(destination type) or Err.
convert_typesystem(s) ==
    CASE s = "Int" -> [ok |-> TRUE, ty |-> "I64"]
      [] s = "Str" -> [ok |-> TRUE, ty |-> "Utf8"]
      [] OTHER     -> [ok |-> FALSE, ty |-> "none"]

\* The (source type, destination type) pairs the Transport can convert.
ConversionRules == {<<"Int", "I64">>}

\* TP::processor(src_ty, dst_ty) (dispatcher.rs:105): Ok(fn) or Err.  The
\* function pointer is represented by the pair it converts.
processor(src_ty, dst_ty) ==
    IF <<src_ty, dst_ty>> \in ConversionRules
    THEN [ok |-> TRUE, fn |-> <<src_ty, dst_ty>>]
    ELSE [ok |-> FALSE, fn |-> <<src_ty, dst_ty>>]

\* TP::process(s1, s2, ..) (dispatcher.rs:121,136) has a branch for the pair.
process_has_rule(s1, s2) == <<s1, s2>> \in ConversionRules

\* The schemas Source::schema() may report (dispatcher.rs:52).
RECURSIVE SeqsUpTo(_, _)
SeqsUpTo(S, n) ==
    IF n = 0 THEN {<<>>}
    ELSE LET shorter == SeqsUpTo(S, n - 1)
         IN  shorter \cup {Append(q, x) : q \in {p \in shorter : Len(p) = n - 1}, x \in S}

Schemas == SeqsUpTo(SrcTypes, MaxCols)

\* The build configurations the cfg gate of dispatcher.rs:84-85 accepts:
\* compile_error! fires only when neither feature is enabled.
compiles(fs) == ~ ("branch" \notin fs /\ "fptr" \notin fs)

Builds == {fs \in SUBSET {"branch", "fptr"} : compiles(fs)}

VARIABLES
    features,        \* the cargo features of the build (cfg(feature = ..))
    pc,              \* the position of run()
    result,          \* what run() returned: [status, step]
    dorder,          \* dispatcher.rs:47
    src_schema,      \* dispatcher.rs:52
    dst_schema,      \* dispatcher.rs:53-56
    src_partitions,  \* dispatcher.rs:60
    num_rows,        \* dispatcher.rs:68-71
    dst_partitions,  \* dispatcher.rs:78
    schemas,         \* dispatcher.rs:88-92 (feature branch)
    tasks,           \* the closure instances of dispatcher.rs:100-147
    calls            \* the calls made on the collaborators so far

\* The state of the pandas datetime destination columns
\* (connector-agent-python/src/pandas/pandas_columns/datetime.rs).
VARIABLES
    dtpc,            \* the position of the datetime column code
    mem,             \* the numpy buffer of i64 the views alias: address -> value
    block,           \* datetime.rs:11     DateTimeBlock::data
    view,            \* datetime.rs:26     split: `view`
    nrows,           \* datetime.rs:28     split: `nrows`
    ret,             \* datetime.rs:25     split: `ret`
    column,          \* the index in ret of the column partition() consumed
    data,            \* datetime.rs:79     partition: `data`
    counts,          \* datetime.rs:77     partition: `counts`
    partitions,      \* datetime.rs:78     partition: `partitions`
    last_write       \* the write call: its column view, index, value, the buffer before it

dt_vars == <<dtpc, mem, block, view, nrows, ret, column, data, counts, partitions,
             last_write>>

\* No write call was made yet.
NoWrite == [made |-> FALSE]

\* The datetime columns before any DateTimeBlock exists.
DtUnused ==
    /\ dtpc = "unused"
    /\ mem = <<>>
    /\ block = [start |-> 0, dim |-> <<0, 0>>]
    /\ view = block
    /\ nrows = 0
    /\ ret = <<>>
    /\ column = 0
    /\ data = [start |-> 0, dim |-> <<0>>]
    /\ counts = <<>>
    /\ partitions = <<>>
    /\ last_write = NoWrite

vars == <<features, pc, result, dorder, src_schema, dst_schema, src_partitions,
          num_rows, dst_partitions, schemas, tasks, calls,
         dt_vars>>

NoResult == [status |-> "none", step |-> "none"]
Ok       == [status |-> "Ok", step |-> "run"]
Err(step)   == [status |-> "Err", step |-> step]
Panic(step) == [status |-> "Panic", step |-> step]

\* The partition objects of a run: the i-th element of the vector returned by
\* Source::partition() is <<"src", i>>, the i-th element of the vector
\* returned by Destination::partition() is <<"dst", i>>.
Objects == {"src", "dst"} \X (1..MaxParts)

NoCalls ==
    [coordinate    |-> 0,                         \* coordinate calls
     set_data_order |-> 0,                        \* Source::set_data_order calls
     fetch_metadata |-> 0,                        \* Source::fetch_metadata calls
     convert_typesystem |-> 0,                    \* TP::convert_typesystem calls
     allocate      |-> <<>>,                      \* total_rows of each allocate call
     dst_partition |-> <<>>,                      \* counts of each Destination::partition call
     src_partition |-> 0,                         \* Source::partition calls
     prepare       |-> [o \in Objects |-> 0],
     parser        |-> [o \in Objects |-> 0],
     finalize      |-> [o \in Objects |-> 0],
     processor     |-> 0]                         \* times the closure resolved f

Init ==
    /\ features \in Builds
    /\ pc = "coordinate"
    /\ result = NoResult
    /\ dorder = "none"
    /\ src_schema = <<>>
    /\ dst_schema = <<>>
    /\ src_partitions = <<>>
    /\ num_rows = <<>>
    /\ dst_partitions = <<>>
    /\ schemas = <<>>
    /\ tasks = <<>>
    /\ calls = NoCalls
    /\ DtUnused

\* An Err of allocate that is recorded while run() goes on to
\* Destination::partition.
FailIgnored(step) ==
    /\ pc' = (IF step = "allocate" THEN "dst_partition" ELSE "done")
    /\ result' = Err(step)

\* `?` on an Err: run() returns the error, nothing else changes.
Fail(step) ==
    /\ pc' = "done"
    /\ result' = Err(step)

\* dispatcher.rs:47  coordinate(S::DATA_ORDERS, W::DATA_ORDERS)?
Coordinate ==
    /\ pc = "coordinate"
    /\ calls' = [calls EXCEPT !.coordinate = @ + 1]
    /\ \/ \E o \in DataOrder : /\ dorder' = o
                               /\ pc' = "set_data_order"
                               /\ result' = result
       \/ /\ Fail("coordinate")
          /\ dorder' = dorder
    /\ UNCHANGED <<dt_vars, features, src_schema, dst_schema, src_partitions, num_rows,
                   dst_partitions, schemas, tasks>>

\* dispatcher.rs:48-49  src.set_data_order(dorder)?; src.set_queries(..)
SetDataOrder ==
    /\ pc = "set_data_order"
    /\ calls' = [calls EXCEPT !.set_data_order = @ + 1]
    /\ \/ /\ pc' = "fetch_metadata"
          /\ result' = result
       \/ Fail("set_data_order")
    /\ UNCHANGED <<dt_vars, features, dorder, src_schema, dst_schema, src_partitions, num_rows,
                   dst_partitions, schemas, tasks>>

\* dispatcher.rs:51-52  src.fetch_metadata()?; let src_schema = src.schema()
FetchMetadata ==
    /\ pc = "fetch_metadata"
    /\ calls' = [calls EXCEPT !.fetch_metadata = @ + 1]
    /\ \/ \E s \in Schemas : /\ src_schema' = s
                             /\ pc' = "convert_schema"
                             /\ result' = result
       \/ /\ Fail("fetch_metadata")
          /\ src_schema' = src_schema
    /\ UNCHANGED <<dt_vars, features, dorder, dst_schema, src_partitions, num_rows,
                   dst_partitions, schemas, tasks>>

\* A schema conversion that looks at the first column's result only.
SchemaConvertsFirstOnly(ss) == Len(ss) = 0 \/ convert_typesystem(ss[1]).ok

\* dispatcher.rs:53-56  the destination schema, or the first column's error
ConvertedSchema(ss) == [c \in 1..Len(ss) |-> convert_typesystem(ss[c]).ty]
SchemaConverts(ss)  == \A c \in 1..Len(ss) : convert_typesystem(ss[c]).ok

\* collect::<Result<Vec<_>>>() stops at the first Err: the number of
\* convert_typesystem calls it made.
ConvertCalls(ss) ==
    IF \A c \in 1..Len(ss) : convert_typesystem(ss[c]).ok THEN Len(ss)
    ELSE CHOOSE c \in 1..Len(ss) :
            /\ ~ convert_typesystem(ss[c]).ok
            /\ \A b \in 1..(c - 1) : convert_typesystem(ss[b]).ok

\* dispatcher.rs:53-57  src_schema.iter().map(convert_typesystem).collect()?
ConvertSchema ==
    /\ pc = "convert_schema"
    /\ calls' = [calls EXCEPT !.convert_typesystem = @ + ConvertCalls(src_schema)]
    /\ IF SchemaConverts(src_schema)
       THEN /\ dst_schema' = ConvertedSchema(src_schema)
            /\ pc' = "src_partition"
            /\ result' = result
       ELSE /\ Fail("convert_typesystem")
            /\ dst_schema' = dst_schema
    /\ UNCHANGED <<dt_vars, features, dorder, src_schema, src_partitions, num_rows,
                   dst_partitions, schemas, tasks>>

\* dispatcher.rs:60  the vector Source::partition() returns: n partitions whose
\* row count is unknown until prepare(); ncols() is the schema length.
NewSrcPartitions(n) ==
    [i \in 1..n |-> [side |-> "src", idx |-> i, prepared |-> "no",
                     nrows |-> 0, ncols |-> Len(src_schema)]]

\* dispatcher.rs:60  let mut src_partitions = self.src.partition()?
SrcPartition ==
    /\ pc = "src_partition"
    /\ calls' = [calls EXCEPT !.src_partition = @ + 1]
    /\ \/ \E n \in 0..MaxParts : /\ src_partitions' = NewSrcPartitions(n)
                                 /\ pc' = "prepare"
                                 /\ result' = result
       \/ /\ Fail("src_partition")
          /\ src_partitions' = src_partitions
    /\ UNCHANGED <<dt_vars, features, dorder, src_schema, dst_schema, num_rows,
                   dst_partitions, schemas, tasks>>

\* dispatcher.rs:63-65  one closure call of par_iter_mut().try_for_each:
\* partition.prepare() runs the query and establishes the row count, or fails.
\* The calls run in parallel; a call may still run after a sibling failed.
Prepare(i) ==
    /\ pc = "prepare"
    /\ i \in 1..Len(src_partitions)
    /\ src_partitions[i].prepared = "no"
    /\ calls' = [calls EXCEPT !.prepare[<<"src", i>>] = @ + 1]
    /\ \/ \E n \in 0..MaxRows :
            src_partitions' = [src_partitions EXCEPT ![i].prepared = "ok", ![i].nrows = n]
       \/ src_partitions' = [src_partitions EXCEPT ![i].prepared = "err"]
    /\ UNCHANGED <<dt_vars, features, pc, result, dorder, src_schema, dst_schema, num_rows,
                   dst_partitions, schemas, tasks>>

\* A join that reports a failure only when every prepare() call failed.
PrepareFailedOnlyIfAll ==
    /\ src_partitions # <<>>
    /\ \A i \in 1..Len(src_partitions) : src_partitions[i].prepared = "err"

PrepareFailed == \E i \in 1..Len(src_partitions) : src_partitions[i].prepared = "err"
PrepareAllRan == \A i \in 1..Len(src_partitions) : src_partitions[i].prepared # "no"

\* dispatcher.rs:65-71  try_for_each returns: Err as soon as one call failed
\* (calls not yet started are skipped), Ok when every call returned Ok; then
\* num_rows is read from every source partition.
PrepareJoin ==
    /\ pc = "prepare"
    /\ PrepareFailed \/ PrepareAllRan
    /\ IF PrepareFailed
       THEN /\ Fail("prepare")
            /\ num_rows' = num_rows
       ELSE /\ num_rows' = [i \in 1..Len(src_partitions) |-> src_partitions[i].nrows]
            /\ pc' = "allocate"
            /\ result' = result
    /\ UNCHANGED <<dt_vars, features, dorder, src_schema, dst_schema, src_partitions,
                   dst_partitions, schemas, tasks, calls>>

\* A total that counts the first partition's rows only.
SumSeqFirst(q) == IF q = <<>> THEN 0 ELSE Head(q)

RECURSIVE SumSeq(_)
SumSeq(q) == IF q = <<>> THEN 0 ELSE Head(q) + SumSeq(Tail(q))

\* dispatcher.rs:74-75  self.dst.allocate(num_rows.iter().sum(), ..)?
Allocate ==
    /\ pc = "allocate"
    /\ calls' = [calls EXCEPT !.allocate = Append(@, SumSeq(num_rows))]
    /\ \/ /\ pc' = "dst_partition"
          /\ result' = result
       \/ Fail("allocate")
    /\ UNCHANGED <<dt_vars, features, dorder, src_schema, dst_schema, src_partitions, num_rows,
                   dst_partitions, schemas, tasks>>

\* dispatcher.rs:78  the vectors Destination::partition(&num_rows) may return:
\* any number of partitions, each reporting its own nrows(), all reporting the
\* same ncols().  The dispatcher checks none of this against num_rows.
NewDstPartitions(rows, nc) ==
    [i \in 1..Len(rows) |-> [side |-> "dst", idx |-> i, nrows |-> rows[i], ncols |-> nc]]

DstPartitionResults ==
    {NewDstPartitions(rows, nc) : rows \in SeqsUpTo(0..MaxRows, MaxParts), nc \in 0..MaxCols}

\* dispatcher.rs:78  let dst_partitions = self.dst.partition(&num_rows)?
DstPartition ==
    /\ pc = "dst_partition"
    /\ calls' = [calls EXCEPT !.dst_partition = Append(@, num_rows)]
    /\ \/ \E ps \in DstPartitionResults : /\ dst_partitions' = ps
                                          /\ pc' = "start_copy"
                                          /\ result' = result
       \/ /\ Fail("dst_partition")
          /\ dst_partitions' = dst_partitions
    /\ UNCHANGED <<dt_vars, features, dorder, src_schema, dst_schema, src_partitions, num_rows,
                   schemas, tasks>>

\* dispatcher.rs:88-92 and 102-105  a.iter().zip_eq(&b).map(|(&x, &y)| (x, y))
ZipSchemas(a, b) == [c \in 1..Len(a) |-> <<a[c], b[c]>>]

\* A pairing that zips the left vector with the right vector reversed.
ZipReversed(left, right) == [i \in 1..Len(left) |-> <<left[i], right[Len(right) + 1 - i]>>]

\* A pairing that, like zip, pairs a prefix when the left vector is shorter.
ZipPanicsIfLeftLonger(left, right) == Len(left) > Len(right)

\* dispatcher.rs:96-98  dst_partitions.into_par_iter().zip_eq(src_partitions):
\* the i-th item is (dst_partitions[i], src_partitions[i]); zip_eq panics when
\* the two lengths differ.
ZipEqPanics(left, right) == Len(left) # Len(right)
ZipEq(left, right) == [i \in 1..Len(left) |-> <<left[i], right[i]>>]

\* dispatcher.rs:99-100  .enumerate() and the closure pattern
\* |(i, (mut src, mut dst))|: the closure's `src` is bound to the first
\* component of the zipped item and its `dst` to the second, so `src` names
\* the element of dst_partitions and `dst` the element of src_partitions.
ClosureArgs(i, item) ==
    [i |-> i - 1, src |-> item[1], dst |-> item[2],
     pc |-> "start", err |-> "none", f |-> <<>>,
     outer |-> 0, inner |-> 0, half |-> 0, log |-> <<>>]

\* dispatcher.rs:80-100  the debug loop, `schemas` (feature branch), and the
\* pairing of the partitions into the parallel tasks.
StartCopy ==
    /\ pc = "start_copy"
    /\ schemas' = IF "branch" \in features THEN ZipSchemas(src_schema, dst_schema) ELSE <<>>
    /\ IF ZipEqPanics(dst_partitions, src_partitions)
       THEN /\ pc' = "done"
            /\ result' = Panic("zip_eq")
            /\ tasks' = tasks
       ELSE /\ pc' = "copy"
            /\ result' = result
            /\ tasks' = [i \in 1..Len(dst_partitions) |->
                            ClosureArgs(i, ZipEq(dst_partitions, src_partitions)[i])]
    /\ UNCHANGED <<dt_vars, features, dorder, src_schema, dst_schema, src_partitions, num_rows,
                   dst_partitions, calls>>

\* ------------------------------------------------ one task of the copy loop
\* A task t is one call of the closure of dispatcher.rs:100-147.  t.pc is its
\* position: start, resolved (f built), loop, finalize, ok, err, panic.
\* t.log is the sequence of conversions that returned Ok, each
\* [col, via, rule]: the column index, the strategy that made the call and
\* the (source type, destination type) conversion it invoked.

TaskErr(t, what)   == [t EXCEPT !.pc = "err", !.err = what]
TaskPanic(t, what) == [t EXCEPT !.pc = "panic", !.err = what]

\* dispatcher.rs:102-106  (feature fptr) f = zip_eq(src_schema, dst_schema)
\* .map(processor).collect::<Result<Vec<_>>>()?
TaskResolve(t) ==
    LET pairs == ZipSchemas(src_schema, dst_schema)
        fns   == [c \in 1..Len(pairs) |-> processor(pairs[c][1], pairs[c][2])]
    IN  IF \A c \in 1..Len(fns) : fns[c].ok
        THEN [t EXCEPT !.pc = "resolved", !.f = [c \in 1..Len(fns) |-> fns[c].fn]]
        ELSE TaskErr(t, "processor")

\* dispatcher.rs:112,130  `0..src.nrows()` and dispatcher.rs:114,129
\* `0..src.ncols()`: the bounds are read from the closure's `src`.
LoopRows(t) == t.src.nrows
LoopCols(t) == t.src.ncols

\* A ColumnMajor nest whose outer loop is bounded by the row count.
OuterBoundAlwaysRows(t, order) == t.src.nrows

\* dispatcher.rs:110-141  the loop nest chosen by `match dorder`: RowMajor
\* has rows outer and columns inner, ColumnMajor columns outer and rows inner.
OuterBound(t, order) == IF order = "RowMajor" THEN LoopRows(t) ELSE LoopCols(t)
InnerBound(t, order) == IF order = "RowMajor" THEN LoopCols(t) ELSE LoopRows(t)

\* A loop body that takes `col` from the wrong loop variable.
LoopColSwapped(t, order) == IF order = "RowMajor" THEN t.outer ELSE t.inner

\* The `col` of the current iteration: the inner index under RowMajor
\* (dispatcher.rs:114), the outer index under ColumnMajor (dispatcher.rs:129).
LoopCol(t, order) == IF order = "RowMajor" THEN t.inner ELSE t.outer

\* Entering the loop nest: no iteration when either bound is 0.
EnterLoop(t, order) ==
    IF OuterBound(t, order) = 0 \/ InnerBound(t, order) = 0
    THEN [t EXCEPT !.pc = "finalize"]
    ELSE [t EXCEPT !.pc = "loop", !.outer = 0, !.inner = 0, !.half = 0]

\* A loop nest that leaves after the first iteration of the inner loop body.
AdvanceCellBreaks(t, order) == [t EXCEPT !.pc = "finalize", !.half = 0]

\* The end of one iteration of the inner loop body.
AdvanceCell(t, order) ==
    IF t.inner + 1 < InnerBound(t, order)
    THEN [t EXCEPT !.inner = @ + 1, !.half = 0]
    ELSE IF t.outer + 1 < OuterBound(t, order)
         THEN [t EXCEPT !.outer = @ + 1, !.inner = 0, !.half = 0]
         ELSE [t EXCEPT !.pc = "finalize", !.half = 0]

\* dispatcher.rs:108  let mut parser = dst.parser()?   (Ok or Err)
TaskParserOutcomes(t, order) == {EnterLoop(t, order), TaskErr(t, "parser")}

\* dispatcher.rs:115-116 / 131-132  (feature fptr) f[col](&mut parser, &mut src)?
\* f[col] panics when col is out of bounds; the conversion returns Ok or Err.
FptrCallOutcomes(t, fs, order) ==
    LET col  == LoopCol(t, order)
        done == [t EXCEPT !.log = Append(@, [col |-> col, via |-> "fptr", rule |-> t.f[col + 1]])]
    IN  IF col >= Len(t.f)
        THEN {TaskPanic(t, "f[col]")}
        ELSE {IF "branch" \in fs THEN [done EXCEPT !.half = 1] ELSE AdvanceCell(done, order),
              TaskErr(t, "conversion")}

\* dispatcher.rs:118-122 / 133-137  (feature branch) let (s1, s2) = schemas[col];
\* TP::process(s1, s2, &mut parser, &mut src)?   schemas[col] panics when col
\* is out of bounds; process returns Err when it has no branch for the pair.
BranchCallOutcomes(t, order) ==
    LET col  == LoopCol(t, order)
        done == [t EXCEPT !.log = Append(@, [col |-> col, via |-> "branch",
                                              rule |-> schemas[col + 1]])]
    IN  IF col >= Len(schemas)
        THEN {TaskPanic(t, "schemas[col]")}
        ELSE IF ~ process_has_rule(schemas[col + 1][1], schemas[col + 1][2])
             THEN {TaskErr(t, "process")}
             ELSE {AdvanceCell(done, order), TaskErr(t, "conversion")}

\* dispatcher.rs:110-141  the next conversion call of the loop body, in a
\* build with the features fs.
TaskConvertOutcomes(t, fs, order) ==
    IF "fptr" \in fs /\ t.half = 0
    THEN FptrCallOutcomes(t, fs, order)
    ELSE BranchCallOutcomes(t, order)

\* dispatcher.rs:143-146  src.finalize()?; Ok(())
FinalizeTarget(t) == <<t.src.side, t.src.idx>>
TaskFinalizeOutcomes(t) == {[t EXCEPT !.pc = "ok"], TaskErr(t, "finalize")}

\* dispatcher.rs:108  the object whose parser() is called: the closure's `dst`.
ParserTarget(t) == <<t.dst.side, t.dst.idx>>

TaskIds == 1..Len(tasks)
Running(t)  == t.pc \in {"resolved", "loop", "finalize"}
Terminal(t) == t.pc \in {"ok", "err", "panic"}
Failed(t)   == t.pc \in {"err", "panic"}

\* dispatcher.rs:101-106  the closure starts by building f (feature fptr).
RunResolve(i) ==
    /\ pc = "copy"
    /\ i \in TaskIds
    /\ "fptr" \in features
    /\ tasks[i].pc = "start"
    /\ tasks' = [tasks EXCEPT ![i] = TaskResolve(tasks[i])]
    /\ calls' = [calls EXCEPT !.processor = @ + 1]
    /\ UNCHANGED <<dt_vars, features, pc, result, dorder, src_schema, dst_schema, src_partitions,
                   num_rows, dst_partitions, schemas>>

\* dispatcher.rs:108
RunParser(i) ==
    /\ pc = "copy"
    /\ i \in TaskIds
    /\ tasks[i].pc = (IF "fptr" \in features THEN "resolved" ELSE "start")
    /\ \E t2 \in TaskParserOutcomes(tasks[i], dorder) : tasks' = [tasks EXCEPT ![i] = t2]
    /\ calls' = [calls EXCEPT !.parser[ParserTarget(tasks[i])] = @ + 1]
    /\ UNCHANGED <<dt_vars, features, pc, result, dorder, src_schema, dst_schema, src_partitions,
                   num_rows, dst_partitions, schemas>>

\* dispatcher.rs:110-141  one conversion call
RunConvert(i) ==
    /\ pc = "copy"
    /\ i \in TaskIds
    /\ tasks[i].pc = "loop"
    /\ \E t2 \in TaskConvertOutcomes(tasks[i], features, dorder) :
            tasks' = [tasks EXCEPT ![i] = t2]
    /\ UNCHANGED <<dt_vars, features, pc, result, dorder, src_schema, dst_schema, src_partitions,
                   num_rows, dst_partitions, schemas, calls>>

\* dispatcher.rs:143-146
RunFinalize(i) ==
    /\ pc = "copy"
    /\ i \in TaskIds
    /\ tasks[i].pc = "finalize"
    /\ \E t2 \in TaskFinalizeOutcomes(tasks[i]) : tasks' = [tasks EXCEPT ![i] = t2]
    /\ calls' = [calls EXCEPT !.finalize[FinalizeTarget(tasks[i])] = @ + 1]
    /\ UNCHANGED <<dt_vars, features, pc, result, dorder, src_schema, dst_schema, src_partitions,
                   num_rows, dst_partitions, schemas>>

\* A join that drops the tasks' errors.
CopyResultDropsErr ==
    IF \E i \in 1..Len(tasks) : tasks[i].pc = "panic" THEN Panic("copy") ELSE Ok

\* dispatcher.rs:147-151  try_for_each returns once no task is running: every
\* task has ended, or one has failed and the tasks not yet started are
\* skipped.  A panic of a task is resumed in run(); otherwise an Err of a task
\* is returned by `?`; otherwise run() returns Ok(()).
CopyResult ==
    IF \E i \in TaskIds : tasks[i].pc = "panic" THEN Panic("copy")
    ELSE IF \E i \in TaskIds : tasks[i].pc = "err" THEN Err("copy")
    ELSE Ok

CopyJoin ==
    /\ pc = "copy"
    /\ \A i \in TaskIds : ~ Running(tasks[i])
    /\ \/ \A i \in TaskIds : Terminal(tasks[i])
       \/ \E i \in TaskIds : Failed(tasks[i])
    /\ pc' = "done"
    /\ result' = CopyResult
    /\ UNCHANGED <<dt_vars, features, dorder, src_schema, dst_schema, src_partitions, num_rows,
                   dst_partitions, schemas, tasks, calls>>

Next ==
    \/ Coordinate
    \/ SetDataOrder
    \/ FetchMetadata
    \/ ConvertSchema
    \/ SrcPartition
    \/ \E i \in 1..MaxParts : Prepare(i)
    \/ PrepareJoin
    \/ Allocate
    \/ DstPartition
    \/ StartCopy
    \/ \E i \in 1..MaxParts : RunResolve(i)
    \/ \E i \in 1..MaxParts : RunParser(i)
    \/ \E i \in 1..MaxParts : RunConvert(i)
    \/ \E i \in 1..MaxParts : RunFinalize(i)
    \/ CopyJoin

Spec == Init /\ [][Next]_vars

\* ------------------------------------------------------------ properties
AnyCall(f) == \E o \in Objects : f[o] > 0
NoCall(f)  == \A o \in Objects : f[o] = 0
SomePrepareErr == \E i \in 1..Len(src_partitions) : src_partitions[i].prepared = "err"

\* C1: when prepare() has failed for some source partition, Destination::allocate
\* and Destination::partition have not been called and are never called, no
\* parser is obtained, no cell is converted, and run() returns an error.
C1_PrepareFailureIsFatal ==
    SomePrepareErr =>
        /\ calls.allocate = <<>>
        /\ calls.dst_partition = <<>>
        /\ dst_partitions = <<>>
        /\ NoCall(calls.parser)
        /\ tasks = <<>>
        /\ result.status # "Ok"
        /\ pc \in {"prepare", "done"}
        /\ pc = "done" => result = Err("prepare")

\* C1 witness: run() has returned after one of two parallel prepare() calls
\* failed while the other returned Ok.
C1_Witness ==
    /\ pc = "done"
    /\ Len(src_partitions) = 2
    /\ \E i, j \in 1..2 : /\ src_partitions[i].prepared = "err"
                          /\ src_partitions[j].prepared = "ok"

\* The cells a task has to convert in all: one conversion per cell and
\* active strategy, over the bounds the task's loops read.
CellsOf(t) == t.src.nrows * t.src.ncols * Cardinality(features)

\* C2 (as amended): the steps up to the creation of the destination
\* partitions run in the fixed order, each only after every earlier one
\* succeeded, and an error of one of them ends run() before any later
\* operation; the copy tasks exist only after all of them succeeded; within a
\* task the parser is obtained before its first conversion and finalize() is
\* called only after the task's last conversion.
C2_StepOrder ==
    /\ calls.set_data_order > 0 => calls.coordinate = 1 /\ dorder \in DataOrder
    /\ calls.fetch_metadata > 0 => calls.set_data_order = 1
    /\ calls.convert_typesystem > 0 => calls.fetch_metadata = 1
    /\ calls.src_partition > 0 =>
          /\ calls.fetch_metadata = 1
          /\ SchemaConverts(src_schema)
          /\ dst_schema = ConvertedSchema(src_schema)
    /\ AnyCall(calls.prepare) => calls.src_partition = 1 /\ result # Err("src_partition")
    /\ calls.allocate # <<>> =>
          /\ calls.src_partition = 1
          /\ \A i \in 1..Len(src_partitions) :
                src_partitions[i].prepared = "ok" /\ calls.prepare[<<"src", i>>] = 1
    /\ calls.dst_partition # <<>> => Len(calls.allocate) = 1 /\ result # Err("allocate")
    /\ tasks # <<>> => Len(calls.dst_partition) = 1 /\ result # Err("dst_partition")
    /\ result.status = "Err" /\ result.step # "copy" =>
          /\ tasks = <<>>
          /\ NoCall(calls.parser)
          /\ NoCall(calls.finalize)
    /\ result \in {Err("coordinate"), Err("set_data_order"), Err("fetch_metadata"),
                   Err("convert_typesystem")} => calls.src_partition = 0
    /\ result \in {Err("src_partition"), Err("prepare")} => calls.allocate = <<>>
    /\ \A i \in TaskIds :
          /\ tasks[i].log # <<>> => calls.parser[ParserTarget(tasks[i])] = 1
          /\ calls.finalize[FinalizeTarget(tasks[i])] > 0 =>
                /\ calls.finalize[FinalizeTarget(tasks[i])] = 1
                /\ Len(tasks[i].log) = CellsOf(tasks[i])
                /\ tasks[i].pc \in {"ok", "err"}

\* C2 witness: one task has called finalize() after converting its cells
\* while another task is still in its loop.
C2_Witness ==
    /\ pc = "copy"
    /\ \E i, j \in TaskIds :
          /\ tasks[i].pc = "ok"
          /\ tasks[i].log # <<>>
          /\ tasks[j].pc = "loop"

\* C2 (as claimed): FinalizeSourcePartitions is a step of its own that
\* starts only after the CopyLoop step has completed successfully, that is
\* after every task converted all its cells.
C2_FinalizeAfterWholeCopyLoop ==
    AnyCall(calls.finalize) =>
        \A j \in TaskIds : /\ tasks[j].pc \in {"finalize", "ok", "err"}
                           /\ tasks[j].pc = "err" => tasks[j].err = "finalize"

\* C3: the i-th source partition is paired with the i-th destination
\* partition, each pair is handled by exactly one task, and no partition is
\* used by two tasks.
C3_PositionalPairing ==
    tasks # <<>> =>
        /\ Len(tasks) = Len(src_partitions)
        /\ Len(tasks) = Len(dst_partitions)
        /\ \A i \in TaskIds :
              /\ tasks[i].i = i - 1
              /\ {tasks[i].src, tasks[i].dst} = {src_partitions[i], dst_partitions[i]}
              /\ {tasks[i].src.idx, tasks[i].dst.idx} = {i}
        /\ \A i, j \in TaskIds :
              i # j => {tasks[i].src, tasks[i].dst} \cap {tasks[j].src, tasks[j].dst} = {}
        /\ \A o \in Objects : calls.parser[o] <= 1 /\ calls.finalize[o] <= 1

\* C3 witness: two tasks have both converted cells.
C3_Witness ==
    /\ Len(tasks) = 2
    /\ tasks[1].log # <<>>
    /\ tasks[2].log # <<>>

\* C4 (as claimed): a task that succeeded in a build with one strategy has
\* converted nrows() * ncols() cells of its SOURCE partition.
C4_BoundsFromSourcePartition ==
    \A i \in TaskIds :
        tasks[i].pc = "ok" /\ Cardinality(features) = 1 =>
            Len(tasks[i].log) = src_partitions[i].nrows * src_partitions[i].ncols

\* C5 (as claimed): when run() returns Ok, finalize() has been called exactly
\* once on every partition created by Source::partition().
C5_SourcePartitionsFinalized ==
    result = Ok =>
        \A i \in 1..Len(src_partitions) : calls.finalize[<<"src", i>>] = 1

\* The column index of the k-th conversion (k from 0) of a task over nr rows
\* and nc columns: rows outer and columns inner under RowMajor, columns
\* outer and rows inner under ColumnMajor.
ExpectedCol(order, k, nr, nc) == IF order = "RowMajor" THEN k % nc ELSE k \div nr

\* C6: in a build with exactly one strategy, a task invokes the conversions
\* once per cell in the negotiated order (RowMajor: columns 0..ncols-1, nrows
\* times; ColumnMajor: each column nrows times, columns ascending), always
\* the conversion of the cell's column, nrows*ncols in all when it succeeds;
\* nrows and ncols being the bounds the task's loops read.
C6_ConversionOrder ==
    Cardinality(features) = 1 =>
        \A i \in TaskIds :
            LET t  == tasks[i]
                nr == t.src.nrows
                nc == t.src.ncols
            IN  /\ Len(t.log) <= nr * nc
                /\ \A k \in 1..Len(t.log) :
                      /\ t.log[k].col = ExpectedCol(dorder, k - 1, nr, nc)
                      /\ t.log[k].via \in features
                      /\ t.log[k].rule = <<src_schema[t.log[k].col + 1],
                                           dst_schema[t.log[k].col + 1]>>
                /\ t.pc = "loop" => Len(t.log) < nr * nc
                /\ t.pc \in {"finalize", "ok"} => Len(t.log) = nr * nc

\* C6 witness: a task over 2 rows and 2 columns has succeeded under
\* ColumnMajor in a build with one strategy.
C6_Witness ==
    /\ Cardinality(features) = 1
    /\ dorder = "ColumnMajor"
    /\ \E i \in TaskIds : /\ tasks[i].pc = "ok"
                          /\ tasks[i].src.nrows = 2
                          /\ tasks[i].src.ncols = 2
                          /\ Len(tasks[i].log) = 4

\* Every destination partition reports the row and column counts of the
\* source partition at its position.
SameShapes ==
    /\ Len(dst_partitions) = Len(src_partitions)
    /\ \A i \in 1..Len(dst_partitions) :
          /\ dst_partitions[i].nrows = src_partitions[i].nrows
          /\ dst_partitions[i].ncols = src_partitions[i].ncols

\* C7 (as claimed): the error for a column whose type pair has no conversion
\* is raised before any cell of any partition is converted (stated for the
\* runs in which source and destination partitions agree on their shapes).
C7_NoRuleErrorBeforeAnyCell ==
    SameShapes =>
        \A i \in TaskIds :
            tasks[i].err \in {"process", "processor"} =>
                \A j \in TaskIds : tasks[j].log = <<>>

\* C8: when convert_typesystem fails for a column of the source schema,
\* Source::partition, prepare, Destination::allocate, Destination::partition
\* and every cell conversion are never invoked and run() returns that error.
C8_SchemaConversionFailureIsFatal ==
    (\E c \in 1..Len(src_schema) : ~ convert_typesystem(src_schema[c]).ok) =>
        /\ calls.src_partition = 0
        /\ src_partitions = <<>>
        /\ NoCall(calls.prepare)
        /\ calls.allocate = <<>>
        /\ calls.dst_partition = <<>>
        /\ tasks = <<>>
        /\ pc \in {"convert_schema", "done"}
        /\ pc = "done" => result = Err("convert_typesystem")

\* C8 witness: run() has returned on a two-column schema whose first column
\* converts and whose second does not.
C8_Witness ==
    /\ pc = "done"
    /\ Len(src_schema) = 2
    /\ convert_typesystem(src_schema[1]).ok
    /\ ~ convert_typesystem(src_schema[2]).ok
    /\ calls.convert_typesystem = 2

\* C10 (as claimed): a build that converts cells has exactly one strategy
\* active, and no cell is converted by both strategies.
C10_ExactlyOneStrategy ==
    \A i \in TaskIds :
        tasks[i].log # <<>> =>
            /\ Cardinality(features) = 1
            /\ \A k, l \in 1..Len(tasks[i].log) : tasks[i].log[k].via = tasks[i].log[l].via

\* ------------------------------------------ two builds on the same inputs
\* SpecEq runs the closure of dispatcher.rs:100-147 twice on the same pair of
\* partitions, the same schema and the same Transport: tasks[1] as compiled
\* with feature branch, tasks[2] as compiled with feature fptr.  The data are
\* the same in both runs, and are data every collaborator call succeeds on:
\* the only errors left are those the Transport raises for a type pair.
EqBuild(i) == IF i = 1 THEN {"branch"} ELSE {"fptr"}

CollaboratorErrors == {"parser", "conversion", "finalize"}
OnGoodData(outcomes) == {t \in outcomes : t.err \notin CollaboratorErrors}

EqInit ==
    /\ features = {"branch", "fptr"}
    /\ pc = "copy"
    /\ result = NoResult
    /\ dorder \in DataOrder
    /\ src_schema \in {ss \in Schemas : SchemaConverts(ss)}
    /\ dst_schema = ConvertedSchema(src_schema)
    /\ \E n \in 0..MaxRows :
          /\ src_partitions = [NewSrcPartitions(1) EXCEPT ![1].prepared = "ok", ![1].nrows = n]
          /\ num_rows = <<n>>
          /\ dst_partitions = NewDstPartitions(<<n>>, Len(src_schema))
    /\ schemas = ZipSchemas(src_schema, dst_schema)
    /\ tasks = [i \in 1..2 |-> ClosureArgs(1, ZipEq(dst_partitions, src_partitions)[1])]
    /\ calls = NoCalls
    /\ DtUnused

EqResolve(i) ==
    /\ "fptr" \in EqBuild(i)
    /\ tasks[i].pc = "start"
    /\ tasks' = [tasks EXCEPT ![i] = TaskResolve(tasks[i])]
    /\ UNCHANGED <<dt_vars, features, pc, result, dorder, src_schema, dst_schema, src_partitions,
                   num_rows, dst_partitions, schemas, calls>>

EqParser(i) ==
    /\ tasks[i].pc = (IF "fptr" \in EqBuild(i) THEN "resolved" ELSE "start")
    /\ \E t2 \in OnGoodData(TaskParserOutcomes(tasks[i], dorder)) :
            tasks' = [tasks EXCEPT ![i] = t2]
    /\ UNCHANGED <<dt_vars, features, pc, result, dorder, src_schema, dst_schema, src_partitions,
                   num_rows, dst_partitions, schemas, calls>>

EqConvert(i) ==
    /\ tasks[i].pc = "loop"
    /\ \E t2 \in OnGoodData(TaskConvertOutcomes(tasks[i], EqBuild(i), dorder)) :
            tasks' = [tasks EXCEPT ![i] = t2]
    /\ UNCHANGED <<dt_vars, features, pc, result, dorder, src_schema, dst_schema, src_partitions,
                   num_rows, dst_partitions, schemas, calls>>

EqFinalize(i) ==
    /\ tasks[i].pc = "finalize"
    /\ \E t2 \in OnGoodData(TaskFinalizeOutcomes(tasks[i])) :
            tasks' = [tasks EXCEPT ![i] = t2]
    /\ UNCHANGED <<dt_vars, features, pc, result, dorder, src_schema, dst_schema, src_partitions,
                   num_rows, dst_partitions, schemas, calls>>

EqNext ==
    \/ \E i \in 1..2 : EqResolve(i)
    \/ \E i \in 1..2 : EqParser(i)
    \/ \E i \in 1..2 : EqConvert(i)
    \/ \E i \in 1..2 : EqFinalize(i)

SpecEq == EqInit /\ [][EqNext]_vars

\* What run() returns when its only task ended as t (dispatcher.rs:147-151).
RunResultOf(t) ==
    IF t.pc = "panic" THEN Panic("copy") ELSE IF t.pc = "err" THEN Err("copy") ELSE Ok

\* The conversions a task made, without the strategy that made them.
Conversions(t) == [k \in 1..Len(t.log) |-> <<t.log[k].col, t.log[k].rule>>]

\* C9 (as claimed): on the same inputs the branch build and the fptr build
\* perform the same sequence of conversions and return the same result.
C9_SameOutcomeInBothBuilds ==
    Terminal(tasks[1]) /\ Terminal(tasks[2]) =>
        /\ Conversions(tasks[1]) = Conversions(tasks[2])
        /\ RunResultOf(tasks[1]) = RunResultOf(tasks[2])

\* The rows of the first k source partitions, as prepare() left them.
RECURSIVE PreparedRows(_)
PreparedRows(k) == IF k = 0 THEN 0 ELSE src_partitions[k].nrows + PreparedRows(k - 1)

AllPrepared ==
    \A i \in 1..Len(src_partitions) : src_partitions[i].prepared = "ok"

\* C11: Destination::allocate is called once per successful run, before
\* Destination::partition, with the sum of the nrows() of all source
\* partitions read after every prepare() returned Ok; Destination::partition
\* receives those row counts in source-partition order.
C11_AllocateOnceWithTotalRows ==
    /\ Len(calls.allocate) <= 1
    /\ Len(calls.dst_partition) <= 1
    /\ result = Ok => Len(calls.allocate) = 1 /\ Len(calls.dst_partition) = 1
    /\ calls.allocate # <<>> =>
          /\ AllPrepared
          /\ calls.allocate[1] = PreparedRows(Len(src_partitions))
    /\ calls.dst_partition # <<>> =>
          /\ calls.allocate # <<>>
          /\ Len(calls.dst_partition[1]) = Len(src_partitions)
          /\ \A i \in 1..Len(src_partitions) :
                calls.dst_partition[1][i] = src_partitions[i].nrows

\* C11 witness: run() returned Ok over two source partitions of 1 and 2 rows.
C11_Witness ==
    /\ result = Ok
    /\ Len(src_partitions) = 2
    /\ src_partitions[1].nrows = 1
    /\ src_partitions[2].nrows = 2
    /\ calls.allocate = <<3>>

\* C12 (as amended): when Destination::allocate returns an error, run()
\* returns it; no destination partition has been or is ever created, and
\* nothing is copied; the source partitions have all been created and
\* prepared before the call.
C12_AllocateFailureIsFatal ==
    result = Err("allocate") =>
        /\ pc = "done"
        /\ calls.dst_partition = <<>>
        /\ dst_partitions = <<>>
        /\ tasks = <<>>
        /\ NoCall(calls.parser)
        /\ calls.src_partition = 1
        /\ AllPrepared
        /\ \A i \in 1..Len(src_partitions) : calls.prepare[<<"src", i>>] = 1

\* C12 witness: allocate failed after two source partitions were prepared.
C12_Witness ==
    /\ result = Err("allocate")
    /\ Len(src_partitions) = 2

\* C12 (as claimed): when Destination::allocate returns an error, no source
\* partition and no destination partition has been created or prepared.
C12_NoPartitionBeforeAllocateFails ==
    result = Err("allocate") =>
        /\ calls.src_partition = 0
        /\ src_partitions = <<>>
        /\ NoCall(calls.prepare)
        /\ dst_partitions = <<>>

\* C13 (as amended): run() returns Ok only when every step and every task
\* succeeded; when a task failed it returns an error of a failed task, or
\* resumes a task's panic; a task is skipped only after another one failed.
C13_OkOnlyWhenAllSucceeded ==
    /\ result = Ok =>
          /\ calls.coordinate = 1 /\ calls.set_data_order = 1 /\ calls.fetch_metadata = 1
          /\ calls.src_partition = 1
          /\ AllPrepared
          /\ Len(calls.allocate) = 1 /\ Len(calls.dst_partition) = 1
          /\ Len(tasks) = Len(src_partitions)
          /\ \A i \in TaskIds : tasks[i].pc = "ok"
    /\ result.status \in {"Ok", "Err", "Panic"} <=> pc = "done"
    /\ pc = "done" /\ (\E i \in TaskIds : tasks[i].pc \in {"err", "panic"}) =>
          result.status \in {"Err", "Panic"}
    /\ result = Err("copy") => \E i \in TaskIds : tasks[i].pc = "err"
    /\ result = Panic("copy") => \E i \in TaskIds : tasks[i].pc = "panic"
    /\ \A i \in TaskIds :
          pc = "done" /\ tasks[i].pc = "start" =>
              \E j \in TaskIds : tasks[j].pc \in {"err", "panic"}

\* C13 witness: run() returned the error of one task while the other task
\* converted its cells and ended Ok.
C13_Witness ==
    /\ result = Err("copy")
    /\ \E i, j \in TaskIds : /\ tasks[i].pc = "err"
                             /\ tasks[j].pc = "ok"
                             /\ tasks[j].log # <<>>

\* C13 (as claimed): once a task has failed, no task converts a further cell.
C13_FailureStopsOtherTasks ==
    [][(\E i \in TaskIds : tasks[i].pc \in {"err", "panic"}) =>
          \A j \in TaskIds : tasks'[j].log = tasks[j].log]_vars

\* C18 (as claimed): under function-pointer dispatch the conversion
\* functions are resolved exactly once per run, before the parallel copy
\* loop starts, not once per task.
C18_PlanResolvedOncePerRun ==
    "fptr" \in features =>
        /\ calls.processor <= 1
        /\ tasks # <<>> => calls.processor = 1

\* C19: when Destination::partition returned a number of partitions other
\* than the number of source partitions, no task starts: no parser is
\* obtained, no cell converted, no partition finalized, and run() panics
\* instead of returning Ok.
C19_LengthMismatchPanics ==
    (/\ calls.dst_partition # <<>>
     /\ result # Err("dst_partition")
     /\ Len(dst_partitions) # Len(src_partitions)) =>
        /\ tasks = <<>>
        /\ NoCall(calls.parser)
        /\ NoCall(calls.finalize)
        /\ pc \in {"start_copy", "done"}
        /\ result.status # "Ok"
        /\ pc = "done" => result = Panic("zip_eq")

\* C19 witness: run() ended after Destination::partition returned one
\* partition for two source partitions.
C19_Witness ==
    /\ pc = "done"
    /\ Len(src_partitions) = 2
    /\ Len(dst_partitions) = 1
    /\ dst_partitions[1].nrows > 0

\* ------------------------------------------ two data orders on one grid
\* SpecOrd runs the closure of dispatcher.rs:100-147 twice on the same grid
\* of cells, the same schema and the same build: tasks[1] with dorder =
\* RowMajor, tasks[2] with dorder = ColumnMajor.  Source and destination
\* honour the order: the parser hands out the cells of the grid one by one
\* in that order, each call of a conversion takes the next cell and writes
\* the next cell of the destination partition.
OrdOrder(i) == IF i = 1 THEN "RowMajor" ELSE "ColumnMajor"

\* The k-th cell (k from 0) of a grid of nr rows and nc columns, as
\* <<row, column>>, in the given order.
CellAt(order, k, nr, nc) ==
    IF order = "RowMajor" THEN <<k \div nc, k % nc>> ELSE <<k % nr, k \div nr>>

\* The parser has a next cell for the conversion call that made log entry
\* number n, and that cell has the source type the conversion takes.
CursorAccepts(entry, n, order, nr, nc) ==
    /\ n <= nr * nc
    /\ src_schema[CellAt(order, n - 1, nr, nc)[2] + 1] = entry.rule[1]

\* The outcome t2 of a conversion call of task t, on such a parser: a call
\* the parser cannot serve returns Err.
OnHonestCursor(t, t2, order) ==
    IF /\ Len(t2.log) > Len(t.log)
       /\ ~ CursorAccepts(t2.log[Len(t2.log)], Len(t2.log), order, t.dst.nrows, t.dst.ncols)
    THEN TaskErr(t, "conversion")
    ELSE t2

OrdInit ==
    /\ features \in Builds
    /\ pc = "copy"
    /\ result = NoResult
    /\ dorder = "none"
    /\ src_schema \in {ss \in Schemas : SchemaConverts(ss)}
    /\ dst_schema = ConvertedSchema(src_schema)
    /\ \E n \in 0..MaxRows :
          /\ src_partitions = [NewSrcPartitions(1) EXCEPT ![1].prepared = "ok", ![1].nrows = n]
          /\ num_rows = <<n>>
          /\ dst_partitions = NewDstPartitions(<<n>>, Len(src_schema))
    /\ schemas = IF "branch" \in features THEN ZipSchemas(src_schema, dst_schema) ELSE <<>>
    /\ tasks = [i \in 1..2 |-> ClosureArgs(1, ZipEq(dst_partitions, src_partitions)[1])]
    /\ calls = NoCalls
    /\ DtUnused

OrdResolve(i) ==
    /\ "fptr" \in features
    /\ tasks[i].pc = "start"
    /\ tasks' = [tasks EXCEPT ![i] = TaskResolve(tasks[i])]
    /\ UNCHANGED <<dt_vars, features, pc, result, dorder, src_schema, dst_schema, src_partitions,
                   num_rows, dst_partitions, schemas, calls>>

OrdParser(i) ==
    /\ tasks[i].pc = (IF "fptr" \in features THEN "resolved" ELSE "start")
    /\ \E t2 \in OnGoodData(TaskParserOutcomes(tasks[i], OrdOrder(i))) :
            tasks' = [tasks EXCEPT ![i] = t2]
    /\ UNCHANGED <<dt_vars, features, pc, result, dorder, src_schema, dst_schema, src_partitions,
                   num_rows, dst_partitions, schemas, calls>>

OrdConvert(i) ==
    /\ tasks[i].pc = "loop"
    /\ \E t2 \in OnGoodData(TaskConvertOutcomes(tasks[i], features, OrdOrder(i))) :
            tasks' = [tasks EXCEPT ![i] = OnHonestCursor(tasks[i], t2, OrdOrder(i))]
    /\ UNCHANGED <<dt_vars, features, pc, result, dorder, src_schema, dst_schema, src_partitions,
                   num_rows, dst_partitions, schemas, calls>>

OrdFinalize(i) ==
    /\ tasks[i].pc = "finalize"
    /\ \E t2 \in OnGoodData(TaskFinalizeOutcomes(tasks[i])) :
            tasks' = [tasks EXCEPT ![i] = t2]
    /\ UNCHANGED <<dt_vars, features, pc, result, dorder, src_schema, dst_schema, src_partitions,
                   num_rows, dst_partitions, schemas, calls>>

OrdNext ==
    \/ \E i \in 1..2 : OrdResolve(i)
    \/ \E i \in 1..2 : OrdParser(i)
    \/ \E i \in 1..2 : OrdConvert(i)
    \/ \E i \in 1..2 : OrdFinalize(i)

SpecOrd == OrdInit /\ [][OrdNext]_vars

\* The grid of the partition pair both tasks copy.
GridCells == (0..(src_partitions[1].nrows - 1)) \X (0..(src_partitions[1].ncols - 1))

\* The logical table a task has written: the cell written by its k-th
\* conversion holds the source cell at the same position, converted by the
\* conversion that call invoked.
TableOf(t, order) ==
    LET nr == t.dst.nrows
        nc == t.dst.ncols
        written == {CellAt(order, k - 1, nr, nc) : k \in 1..Len(t.log)}
    IN  [cell \in written |->
            LET k == CHOOSE k \in 1..Len(t.log) : CellAt(order, k - 1, nr, nc) = cell
            IN  <<cell, t.log[k].rule>>]

\* C17: when the copy of a grid succeeds under RowMajor and under
\* ColumnMajor, both leave the same logical table: every (row, column)
\* position of the grid holds the source cell of that position converted by
\* the conversion of its column.
C17_SameTableInBothOrders ==
    tasks[1].pc = "ok" /\ tasks[2].pc = "ok" =>
        /\ TableOf(tasks[1], "RowMajor") = TableOf(tasks[2], "ColumnMajor")
        /\ TableOf(tasks[1], "RowMajor") =
              [cell \in GridCells |->
                  <<cell, <<src_schema[cell[2] + 1], dst_schema[cell[2] + 1]>>>>]

\* C17 witness: both copies of a grid of 2 rows and 2 columns have succeeded.
C17_Witness ==
    /\ tasks[1].pc = "ok"
    /\ tasks[2].pc = "ok"
    /\ src_partitions[1].nrows = 2
    /\ src_partitions[1].ncols = 2
    /\ Len(tasks[1].log) = 4
    /\ tasks[1].log # tasks[2].log

\* ---------------------------------------------- pandas datetime columns
\* connector-agent-python/src/pandas/pandas_columns/datetime.rs.  A view
\* (ndarray ArrayViewMut1 / ArrayViewMut2 over the numpy buffer, in standard
\* layout) is [start, dim]: the address of its first cell and its shape; it
\* aliases the Size(v) cells from start on.

\* datetime.rs:11, 41  the width of the i64 cells.  TLC computes in 32 bits,
\* so the model keeps the arithmetic of the code and scales the width down.
I64Bits == 8

\* datetime.rs:58, 64  the nanoseconds in a second of chrono's
\* timestamp_nanos, scaled down with the width; as with 10^9 and 2^63, the
\* minimum of the integer type is no multiple of it.
NanosPerSec == 10

I64Min == -(2 ^ (I64Bits - 1))
I64Max == (2 ^ (I64Bits - 1)) - 1

\* x is a value of i64.
FitsI64(x) == I64Min <= x /\ x <= I64Max

\* Two's-complement wrapping of an arithmetic result to the width of i64.
WrapI64(x) == ((x - I64Min) % (2 ^ I64Bits)) + I64Min

\* chrono::DateTime<Utc>: whole seconds since the epoch (rounded down) and
\* the nanoseconds within that second.  Its range is far wider than what an
\* i64 of nanoseconds holds.
DateTime(s, n) == [secs |-> s, nsec |-> n]

\* The timestamps written: 1 ns after the epoch, 1 ns before it, the instant
\* whose nanosecond count is the minimum of i64, and an instant past the
\* last one an i64 of nanoseconds holds.
DateTimes ==
    {DateTime(0, 1),
     DateTime(-1, NanosPerSec - 1),
     DateTime(I64Min \div NanosPerSec, I64Min % NanosPerSec),
     DateTime((I64Max \div NanosPerSec) + 1, 0)}

\* The nanoseconds from the epoch to t, as a number.
NanosecondCount(t) == (t.secs * NanosPerSec) + t.nsec

\* datetime.rs:58, 64  val.timestamp_nanos(), chrono 0.4:
\*     let as_ns = self.timestamp() * 1_000_000_000;
\*     as_ns + i64::from(self.timestamp_subsec_nanos())
\* in i64.  An overflow of the product or of the sum panics in a build with
\* overflow checks and wraps in a build without: both outcomes.
timestamp_nanos(t) ==
    LET as_ns == t.secs * NanosPerSec
        sum   == WrapI64(as_ns) + t.nsec
    IN  IF FitsI64(as_ns) /\ FitsI64(sum)
        THEN {[overflow |-> FALSE, value |-> sum]}
        ELSE {[overflow |-> FALSE, value |-> WrapI64(sum)], [overflow |-> TRUE]}

\* The values handed to write: a DateTime<Utc> (datetime.rs:57), or an
\* Option<DateTime<Utc>> (datetime.rs:63) that is None or Some(t).
None == [option |-> TRUE, some |-> FALSE]
Some(t) == [option |-> TRUE, some |-> TRUE, t |-> t]
Plain(t) == [option |-> FALSE, some |-> TRUE, t |-> t]

\* datetime.rs:58  val.timestamp_nanos()
\* datetime.rs:64  val.map(|t| t.timestamp_nanos()).unwrap_or(i64::MIN)
WriteValues(val) ==
    IF val.some THEN timestamp_nanos(val.t) ELSE {[overflow |-> FALSE, value |-> I64Min]}

RECURSIVE Product(_)
Product(q) == IF q = <<>> THEN 1 ELSE Head(q) * Product(Tail(q))

\* The number of cells of a view, and the addresses it aliases.
Size(v) == Product(v.dim)
Cells(v) == {v.start + o : o \in 0..(Size(v) - 1)}

\* ndarray split_at(Axis(0), index) asserts index <= len_of(Axis(0)).
split_at_panics(v, index) == index > v.dim[1]

\* A split_at whose second half starts where the first one does.
split_at_rest_not_advanced(v, index) ==
    <<[start |-> v.start, dim |-> [v.dim EXCEPT ![1] = index]],
      [start |-> v.start, dim |-> [v.dim EXCEPT ![1] = @ - index]]>>

\* datetime.rs:30, 82  split_at(Axis(0), index): the first `index` entries of
\* axis 0 and the rest, which starts index strides further.
split_at(v, index) ==
    <<[start |-> v.start, dim |-> [v.dim EXCEPT ![1] = index]],
      [start |-> v.start + (index * Product(Tail(v.dim))),
       dim |-> [v.dim EXCEPT ![1] = @ - index]]>>

\* datetime.rs:33  into_shape(nrows): the same cells as a one-dimensional
\* view of n cells; a ShapeError when the view does not have n cells.
into_shape(v, n) ==
    IF Size(v) = n
    THEN [ok |-> TRUE, view |-> [start |-> v.start, dim |-> <<n>>]]
    ELSE [ok |-> FALSE]

\* A loop that leaves the last block row unsplit.
SplitLoopStopsEarly(v) == v.dim[1] > 1

\* datetime.rs:29  while view.nrows() > 0
SplitLoopGuard(v) == v.dim[1] > 0

\* A split_at that never panics.
PartitionCountAlwaysFits(v, c) == FALSE

\* datetime.rs:82  the split_at of partition panics on a count past the end
\* of what is left of the column.
PartitionCountTooLarge(v, c) == split_at_panics(v, c)

\* datetime.rs:24-28  a DateTimeBlock of C columns by R rows over a fresh
\* numpy buffer (block row k is column k), and split() up to its loop.
DtInit ==
    /\ features = {}
    /\ pc = "unused"
    /\ result = NoResult
    /\ dorder = "none"
    /\ src_schema = <<>>
    /\ dst_schema = <<>>
    /\ src_partitions = <<>>
    /\ num_rows = <<>>
    /\ dst_partitions = <<>>
    /\ schemas = <<>>
    /\ tasks = <<>>
    /\ calls = NoCalls
    /\ dtpc = "split"
    /\ \E C \in 0..MaxCols, R \in 0..MaxLen :
          /\ block = [start |-> 0, dim |-> <<C, R>>]
          /\ mem = [a \in 0..((C * R) - 1) |-> 0]
    /\ view = block
    /\ nrows = block.dim[2]
    /\ ret = <<>>
    /\ column = 0
    /\ data = [start |-> 0, dim |-> <<0>>]
    /\ counts = <<>>
    /\ partitions = <<>>
    /\ last_write = NoWrite

\* datetime.rs:29-36  one turn of the loop of split(), or its return.
Split ==
    /\ dtpc = "split"
    /\ IF SplitLoopGuard(view)
       THEN LET halves == split_at(view, 1)
                shaped == into_shape(halves[1], nrows)
            IN  IF split_at_panics(view, 1) \/ ~ shaped.ok
                THEN /\ dtpc' = "split_panicked"
                     /\ UNCHANGED <<view, ret>>
                ELSE /\ view' = halves[2]
                     /\ ret' = Append(ret, shaped.view)
                     /\ UNCHANGED dtpc
       ELSE /\ dtpc' = "columns"
            /\ UNCHANGED <<view, ret>>
    /\ UNCHANGED <<mem, block, nrows, column, data, counts, partitions, last_write,
                   features, pc, result, dorder, src_schema, dst_schema, src_partitions,
                   num_rows, dst_partitions, schemas, tasks, calls>>

\* datetime.rs:77-79  partition(self, counts) is called on column k.
PartitionCall(k, cs) ==
    /\ dtpc = "columns"
    /\ column' = k
    /\ data' = ret[k]
    /\ counts' = cs
    /\ partitions' = <<>>
    /\ dtpc' = "partition"
    /\ UNCHANGED <<mem, block, view, nrows, ret, last_write,
                   features, pc, result, dorder, src_schema, dst_schema, src_partitions,
                   num_rows, dst_partitions, schemas, tasks, calls>>

\* datetime.rs:81-90  one turn of `for &c in counts`, or the return.
PartitionStep ==
    /\ dtpc = "partition"
    /\ IF Len(partitions) < Len(counts)
       THEN LET c == counts[Len(partitions) + 1]
                halves == split_at(data, c)
            IN  IF PartitionCountTooLarge(data, c)
                THEN /\ dtpc' = "partition_panicked"
                     /\ UNCHANGED <<data, partitions>>
                ELSE /\ data' = halves[2]
                     /\ partitions' = Append(partitions, halves[1])
                     /\ UNCHANGED dtpc
       ELSE /\ dtpc' = "partitioned"
            /\ UNCHANGED <<data, partitions>>
    /\ UNCHANGED <<mem, block, view, nrows, ret, column, counts, last_write,
                   features, pc, result, dorder, src_schema, dst_schema, src_partitions,
                   num_rows, dst_partitions, schemas, tasks, calls>>

\* The DateTimeColumns that exist once partition() has returned: the
\* partitions, and the columns partition() was not called on.
Columns ==
    {partitions[j] : j \in 1..Len(partitions)}
        \cup {ret[k] : k \in (1..Len(ret)) \ {column}}

\* datetime.rs:57-59, 63-65  self.data[i] = <value>: indexing past the end
\* of the view panics; so does an overflow in a build that checks it.  One
\* write call is followed after a partition().
Write(col, i, val) ==
    /\ dtpc = "partitioned"
    /\ ~ last_write.made
    /\ \E v \in WriteValues(val) :
          IF v.overflow \/ i >= col.dim[1]
          THEN /\ dtpc' = "write_panicked"
               /\ UNCHANGED mem
               /\ last_write' = [made |-> TRUE, column |-> col, i |-> i, val |-> val,
                                 before |-> mem, panicked |-> TRUE]
          ELSE /\ mem' = [mem EXCEPT ![col.start + i] = v.value]
               /\ UNCHANGED dtpc
               /\ last_write' = [made |-> TRUE, column |-> col, i |-> i, val |-> val,
                                 before |-> mem, panicked |-> FALSE]
    /\ UNCHANGED <<block, view, nrows, ret, column, data, counts, partitions,
                   features, pc, result, dorder, src_schema, dst_schema, src_partitions,
                   num_rows, dst_partitions, schemas, tasks, calls>>

\* datetime.rs:56-60  PandasColumn<DateTime<Utc>>::write
WriteDateTime == \E col \in Columns : \E i \in 0..col.dim[1], t \in DateTimes :
                    Write(col, i, Plain(t))

\* datetime.rs:62-66  PandasColumn<Option<DateTime<Utc>>>::write
WriteOption == \E col \in Columns : \E i \in 0..col.dim[1], val \in {None} \cup {Some(t) : t \in DateTimes} :
                    Write(col, i, val)

DtNext ==
    \/ Split
    \/ /\ dtpc = "columns"
       /\ \E k \in 1..Len(ret) : \E cs \in SeqsUpTo(0..(nrows + 1), MaxCounts) :
             PartitionCall(k, cs)
    \/ PartitionStep
    \/ WriteDateTime
    \/ WriteOption

SpecDT == DtInit /\ [][DtNext]_vars

\* split() is straight-line code: its loop keeps running until it returns.
SpecDTFair == SpecDT /\ WF_vars(Split)

\* ----------------------------------------- properties of the datetime columns
\* The sum of the first j counts.
PrefixSum(q, j) == SumSeq(SubSeq(q, 1, j))

\* The addresses of the index range lo..hi-1 of the column partition() took.
ColumnRange(lo, hi) == {ret[column].start + o : o \in lo..(hi - 1)}

\* partition() has returned its partitions / has returned or panicked.
PartitionReturned == dtpc \in {"partitioned", "write_panicked"}
PartitionEnded == PartitionReturned \/ dtpc = "partition_panicked"

\* Partition j is the index range [sum(counts[0..j-1]), sum(counts[0..j])) of
\* the column.
PartitionIsRange(j) ==
    /\ partitions[j].dim = <<counts[j]>>
    /\ Cells(partitions[j]) = ColumnRange(PrefixSum(counts, j - 1), PrefixSum(counts, j))

\* C14: partition(counts) on a column of length sum(counts) does not panic
\* and returns len(counts) partitions, in order, partition j of length
\* counts[j] and covering exactly the index range from the sum of the counts
\* before it to that sum plus counts[j]; the partitions are pairwise disjoint
\* and together cover every row of the column.
C14_PartitionCoversColumn ==
    (column # 0 /\ SumSeq(counts) = ret[column].dim[1]) =>
        /\ dtpc # "partition_panicked"
        /\ PartitionReturned =>
              /\ Len(partitions) = Len(counts)
              /\ \A j \in 1..Len(partitions) : PartitionIsRange(j)
              /\ \A j, k \in 1..Len(partitions) :
                    j # k => Cells(partitions[j]) \cap Cells(partitions[k]) = {}
              /\ UNION {Cells(partitions[j]) : j \in 1..Len(partitions)} = Cells(ret[column])

\* C14 witness: partition([2, 1, 1]) has returned on a column of 4 rows.
C14_Witness ==
    /\ PartitionReturned
    /\ counts = <<2, 1, 1>>
    /\ ret[column].dim = <<4>>
    /\ Len(partitions) = 3

\* What split() returns for a block of C columns by R rows: C views in
\* column order, view k the R cells of column k, every cell in exactly one.
SplitResultIsColumns ==
    LET C == block.dim[1]
        R == block.dim[2]
    IN  /\ Len(ret) = C
        /\ \A k \in 1..Len(ret) :
              /\ ret[k].dim = <<R>>
              /\ Cells(ret[k]) = {((k - 1) * R) + r : r \in 0..(R - 1)}
        /\ \A j, k \in 1..Len(ret) : j # k => Cells(ret[j]) \cap Cells(ret[k]) = {}
        /\ UNION {Cells(ret[k]) : k \in 1..Len(ret)} = Cells(block)

\* C15: split() on a block of C columns by R rows never panics, terminates,
\* and has then returned exactly C views in column order, each of length R,
\* view k covering exactly the cells of column k, no cell in two views and
\* every cell in one; with C = 0 it returns no view.
C15_SplitReturnsColumnViews ==
    /\ [](/\ dtpc # "split_panicked"
          /\ dtpc # "split" => SplitResultIsColumns)
    /\ <>(dtpc # "split")

\* C15 witness: split() has returned the views of a block of 2 columns by 3
\* rows.
C15_Witness ==
    /\ dtpc = "columns"
    /\ block.dim = <<2, 3>>
    /\ Len(ret) = 2

\* C16: a write at an index i of a column stores, at index i and nowhere
\* else, the minimum of i64 for None and the nanosecond count of the
\* timestamp otherwise; so a timestamp whose count is that minimum leaves
\* the buffer as a None does.
C16_WriteStoresCountOrMinimum ==
    (last_write.made /\ last_write.i < last_write.column.dim[1]) =>
        LET stored == IF last_write.val.some
                      THEN NanosecondCount(last_write.val.t)
                      ELSE I64Min
        IN  mem = [last_write.before EXCEPT ![last_write.column.start + last_write.i] = stored]

\* The first count at which the counts add up to more than the column has.
FirstExcess ==
    CHOOSE j \in 1..Len(counts) :
        /\ PrefixSum(counts, j) > ret[column].dim[1]
        /\ \A k \in 1..(j - 1) : PrefixSum(counts, k) <= ret[column].dim[1]

\* C20: partition(counts) on a column of length L.  When sum(counts) < L the
\* trailing L - sum(counts) rows are in no partition and no write through a
\* partition changes them; when sum(counts) > L the call panics at the first
\* count that exceeds what is left, after pushing the partitions before it
\* at their full length, and otherwise it does not panic; a count of 0 gives
\* an empty partition and every partition starts at the sum of the counts
\* before it.
C20_PartitionShortOrLongCounts ==
    (column # 0 /\ PartitionEnded) =>
        LET L == ret[column].dim[1]
            S == SumSeq(counts)
            trailing == ColumnRange(S, L)
        IN  /\ (PartitionReturned /\ S < L) =>
                  /\ \A j \in 1..Len(partitions) : Cells(partitions[j]) \cap trailing = {}
                  /\ (/\ last_write.made
                      /\ last_write.column \in {partitions[j] : j \in 1..Len(partitions)}) =>
                          \A a \in trailing : mem[a] = last_write.before[a]
            /\ (dtpc = "partition_panicked") = (S > L)
            /\ dtpc = "partition_panicked" =>
                  /\ Len(partitions) = FirstExcess - 1
                  /\ \A j \in 1..Len(partitions) : PartitionIsRange(j)
            /\ PartitionReturned =>
                  \A j \in 1..Len(partitions) :
                      /\ counts[j] = 0 => Cells(partitions[j]) = {}
                      /\ partitions[j].start = ret[column].start + PrefixSum(counts, j - 1)
                      /\ partitions[j].dim = <<counts[j]>>

\* C20 witness: partition([0, 1]) has returned on a column of 3 rows and a
\* value was written through its second partition.
C20_Witness ==
    /\ dtpc = "partitioned"
    /\ counts = <<0, 1>>
    /\ ret[column].dim = <<3>>
    /\ last_write.made
    /\ ~ last_write.panicked
    /\ last_write.column = partitions[2]
    /\ mem # last_write.before

====
